---- MODULE Spec2Model ----
(***************************************************************************)
(* Model of src/main.rs: two wires given as U/D/L/R steps are turned into  *)
(* axis-aligned segments, normalized, intersected, and reduced to the      *)
(* closest intersection by Manhattan distance and by combined path cost.   *)
(*                                                                         *)
(* i32 arithmetic is modelled on the mathematical integers; every input    *)
(* of the model keeps all intermediate values far inside the i32 range.    *)
(***************************************************************************)
EXTENDS Integers, Sequences, FiniteSets

VARIABLES pc, c, path_0, path_1, raw_0, raw_1, segments_0, segments_1,
          horizontals, verticals, idx, is, acc, found_h, found_v

vars == <<pc, c, path_0, path_1, raw_0, raw_1, segments_0, segments_1,
          horizontals, verticals, idx, is, acc, found_h, found_v>>

(***************************************************************************)
(* Bounds of the model.                                                    *)
(***************************************************************************)
MaxTotal == 3
MaxDist == 2
MaxCoord == 1
NormLen == 1
MaxTokLen == 3
EnumLimit == 100

(***************************************************************************)
(* Program constants: the sentinels of closest_intersect.                  *)
(***************************************************************************)
SentinelCoord == 10000000
SentinelCost == 10000000
SentinelDistance == 100000000

(***************************************************************************)
(* Data types.                                                             *)
(***************************************************************************)
Point(px, py) == [x |-> px, y |-> py]

PointWithCost(p, k) == [point |-> p, cost |-> k]

PathSegment(dir, dist) == [direction |-> dir, distance |-> dist]

Segment(e1, e2, st, m) == [end1 |-> e1, end2 |-> e2, steps |-> st, mirrored |-> m]

Directions == {"U", "D", "L", "R"}

max(a, b) == IF a >= b THEN a ELSE b

min(a, b) == IF a <= b THEN a ELSE b

abs(a) == IF a < 0 THEN -a ELSE a

(***************************************************************************)
(* toPathSegment: a token is a sequence of characters.                     *)
(***************************************************************************)
Digits == {"0", "1", "2", "3", "4", "5", "6", "7", "8", "9"}

DigitValue(ch) ==
    CASE ch = "0" -> 0 [] ch = "1" -> 1 [] ch = "2" -> 2 [] ch = "3" -> 3
      [] ch = "4" -> 4 [] ch = "5" -> 5 [] ch = "6" -> 6 [] ch = "7" -> 7
      [] ch = "8" -> 8 [] ch = "9" -> 9

IsWhitespace(ch) == ch = " "

RECURSIVE trim_start(_)
trim_start(s) ==
    IF s # <<>> /\ IsWhitespace(Head(s)) THEN trim_start(Tail(s)) ELSE s

RECURSIVE trim_end(_)
trim_end(s) ==
    IF s # <<>> /\ IsWhitespace(s[Len(s)])
    THEN trim_end(SubSeq(s, 1, Len(s) - 1))
    ELSE s

trim(s) == trim_end(trim_start(s))

RECURSIVE digits_value(_, _)
digits_value(s, sofar) ==
    IF s = <<>> THEN sofar
    ELSE digits_value(Tail(s), 10 * sofar + DigitValue(Head(s)))

\* str::parse::<i32>: an optional sign followed by at least one digit and
\* nothing else.  The tokens of the model are too short to overflow.
parse_i32(s) ==
    LET body == IF s # <<>> /\ Head(s) \in {"+", "-"} THEN Tail(s) ELSE s
        neg == s # <<>> /\ Head(s) = "-"
    IN IF body = <<>> \/ \E k \in 1..Len(body) : body[k] \notin Digits
       THEN [ok |-> FALSE, value |-> 0]
       ELSE [ok |-> TRUE,
             value |-> IF neg THEN -digits_value(body, 0) ELSE digits_value(body, 0)]

\* unwrap() of an empty token's first char, the slice [1..] of an empty
\* trimmed token, and unwrap() of a failed parse all panic.
toPathSegment(tok) ==
    IF tok = <<>> THEN [ok |-> FALSE, value |-> PathSegment("?", 0)]
    ELSE LET direction == Head(tok)
             trimmed == trim(tok)
         IN IF trimmed = <<>> THEN [ok |-> FALSE, value |-> PathSegment("?", 0)]
            ELSE LET distance == parse_i32(Tail(trimmed))
                 IN IF distance.ok
                    THEN [ok |-> TRUE, value |-> PathSegment(direction, distance.value)]
                    ELSE [ok |-> FALSE, value |-> PathSegment("?", 0)]

(***************************************************************************)
(* path_to_segments                                                        *)
(***************************************************************************)
RECURSIVE path_to_segments_loop(_, _, _, _)
path_to_segments_loop(path, segments, curr, steps) ==
    IF path = <<>> THEN [ok |-> TRUE, segments |-> segments]
    ELSE LET step == Head(path)
         IN IF step.direction \notin Directions
            THEN [ok |-> FALSE, segments |-> <<>>]
            ELSE LET next ==
                         CASE step.direction = "U" -> Point(curr.x, curr.y + step.distance)
                           [] step.direction = "D" -> Point(curr.x, curr.y - step.distance)
                           [] step.direction = "L" -> Point(curr.x - step.distance, curr.y)
                           [] step.direction = "R" -> Point(curr.x + step.distance, curr.y)
                     segment == Segment(curr, next, steps, FALSE)
                 IN path_to_segments_loop(Tail(path), Append(segments, segment),
                                          next, steps + step.distance)

path_to_segments_steps_after_advance(path) ==
    LET r == path_to_segments_loop(path, <<>>, Point(0, 0), 0)
    IN [ok |-> r.ok,
        segments |-> [k \in 1..Len(r.segments) |->
                         [r.segments[k] EXCEPT !.steps = @ + path[k].distance]]]

path_to_segments(path) == path_to_segments_loop(path, <<>>, Point(0, 0), 0)

(***************************************************************************)
(* normalize                                                               *)
(***************************************************************************)
normalize_segment_reversed_test(segment) ==
    IF segment.end1.x < segment.end2.x \/ segment.end1.y < segment.end2.y
    THEN Segment(segment.end2, segment.end1, segment.steps, TRUE)
    ELSE segment

normalize_segment(segment) ==
    IF segment.end1.x > segment.end2.x \/ segment.end1.y > segment.end2.y
    THEN Segment(segment.end2, segment.end1, segment.steps, TRUE)
    ELSE segment

normalize(segments) == [k \in 1..Len(segments) |-> normalize_segment(segments[k])]

(***************************************************************************)
(* split_on_direction                                                      *)
(***************************************************************************)
RECURSIVE select_verticals(_)
select_verticals(segments) ==
    IF segments = <<>> THEN <<>>
    ELSE (IF Head(segments).end1.x = Head(segments).end2.x
          THEN <<Head(segments)>> ELSE <<>>) \o select_verticals(Tail(segments))

RECURSIVE select_horizontals(_)
select_horizontals(segments) ==
    IF segments = <<>> THEN <<>>
    ELSE (IF Head(segments).end1.x = Head(segments).end2.x
          THEN <<>> ELSE <<Head(segments)>>) \o select_horizontals(Tail(segments))

split_on_direction(segments) ==
    [horizontals |-> select_horizontals(segments),
     verticals |-> select_verticals(segments)]

(***************************************************************************)
(* cost_for_segment, cost                                                  *)
(***************************************************************************)
cost_for_segment_ignoring_mirrored(p, s) ==
    IF s.end1.x # s.end2.x
    THEN s.steps + p.x - s.end1.x
    ELSE s.steps + p.y - s.end1.y

cost_for_segment(p, s) ==
    IF s.end1.x # s.end2.x
    THEN IF s.mirrored THEN s.steps + s.end2.x - p.x
                       ELSE s.steps + p.x - s.end1.x
    ELSE IF s.mirrored THEN s.steps + s.end2.y - p.y
                       ELSE s.steps + p.y - s.end1.y

cost(p, segment1, segment2) ==
    cost_for_segment(p, segment1) + cost_for_segment(p, segment2)

(***************************************************************************)
(* between, distance                                                       *)
(***************************************************************************)
between(i, low, high) ==
    IF i < low THEN FALSE
    ELSE IF i > high THEN FALSE
    ELSE TRUE

distance(p) == abs(p.x) + abs(p.y)

(***************************************************************************)
(* intersects_horizontal, intersects_vertical, intersects                  *)
(***************************************************************************)
RECURSIVE horizontal_vs_horizontals(_, _)
horizontal_vs_horizontals(segment, others) ==
    IF others = <<>> THEN <<>>
    ELSE LET other == Head(others)
             leftmost == max(segment.end1.x, other.end1.x)
             rightmost == min(segment.end2.x, other.end2.x)
             point1 == Point(leftmost, segment.end1.y)
             point2 == Point(rightmost, segment.end1.y)
             cost1 == cost(point1, other, segment)
             cost2 == cost(point2, other, segment)
         IN (IF segment.end1.y = other.end1.y
             THEN <<PointWithCost(point1, cost1), PointWithCost(point2, cost2)>>
             ELSE <<>>) \o horizontal_vs_horizontals(segment, Tail(others))

RECURSIVE horizontal_vs_verticals(_, _)
horizontal_vs_verticals(segment, others) ==
    IF others = <<>> THEN <<>>
    ELSE LET other == Head(others)
             point == Point(other.end1.x, segment.end1.y)
         IN (IF between(other.end1.x, segment.end1.x, segment.end2.x)
                /\ between(segment.end1.y, other.end1.y, other.end2.y)
             THEN <<PointWithCost(point, cost(point, other, segment))>>
             ELSE <<>>) \o horizontal_vs_verticals(segment, Tail(others))

intersects_horizontal(segment, hs, vs) ==
    horizontal_vs_horizontals(segment, hs) \o horizontal_vs_verticals(segment, vs)

RECURSIVE vertical_vs_verticals(_, _)
vertical_vs_verticals(segment, others) ==
    IF others = <<>> THEN <<>>
    ELSE LET other == Head(others)
             bottom == max(segment.end1.y, other.end1.y)
             top == min(segment.end2.y, other.end2.y)
             point1 == Point(segment.end1.x, bottom)
             point2 == Point(segment.end1.x, top)
             cost1 == cost(point1, segment, other)
             cost2 == cost(point2, segment, other)
         IN (IF segment.end1.x = other.end1.x
             THEN <<PointWithCost(point1, cost1), PointWithCost(point2, cost2)>>
             ELSE <<>>) \o vertical_vs_verticals(segment, Tail(others))

RECURSIVE vertical_vs_horizontals_half_open(_, _)
vertical_vs_horizontals_half_open(segment, others) ==
    IF others = <<>> THEN <<>>
    ELSE LET other == Head(others)
             point == Point(segment.end1.x, other.end1.y)
         IN (IF between(other.end1.y, segment.end1.y, segment.end2.y)
                /\ between(segment.end1.x, other.end1.x, other.end2.x - 1)
             THEN <<PointWithCost(point, cost(point, segment, other))>>
             ELSE <<>>) \o vertical_vs_horizontals_half_open(segment, Tail(others))

RECURSIVE vertical_vs_horizontals(_, _)
vertical_vs_horizontals(segment, others) ==
    IF others = <<>> THEN <<>>
    ELSE LET other == Head(others)
             point == Point(segment.end1.x, other.end1.y)
         IN (IF between(other.end1.y, segment.end1.y, segment.end2.y)
                /\ between(segment.end1.x, other.end1.x, other.end2.x)
             THEN <<PointWithCost(point, cost(point, segment, other))>>
             ELSE <<>>) \o vertical_vs_horizontals(segment, Tail(others))

intersects_vertical(segment, hs, vs) ==
    vertical_vs_verticals(segment, vs) \o vertical_vs_horizontals(segment, hs)

intersects(segment, hs, vs) ==
    IF segment.end1.x = segment.end2.x
    THEN intersects_vertical(segment, hs, vs)
    ELSE intersects_horizontal(segment, hs, vs)

(***************************************************************************)
(* closest_intersect: the accumulators and the body of the inner loop.     *)
(***************************************************************************)
SentinelPoint == PointWithCost(Point(SentinelCoord, SentinelCoord), SentinelCost)

InitialAcc ==
    [closest_distance |-> SentinelDistance,
     closest_intersect |-> SentinelPoint,
     closest_by_path |-> SentinelPoint]

update_closest_without_zero_tests(a, i) ==
    LET dist == distance(i.point)
        a1 == IF dist < a.closest_distance
              THEN [a EXCEPT !.closest_distance = dist, !.closest_intersect = i]
              ELSE a
    IN IF i.cost < a1.closest_by_path.cost
       THEN [a1 EXCEPT !.closest_by_path = i]
       ELSE a1

update_closest(a, i) ==
    LET dist == distance(i.point)
        a1 == IF dist < a.closest_distance /\ dist # 0
              THEN [a EXCEPT !.closest_distance = dist, !.closest_intersect = i]
              ELSE a
    IN IF i.cost < a1.closest_by_path.cost /\ i.cost > 0
       THEN [a1 EXCEPT !.closest_by_path = i]
       ELSE a1

RECURSIVE scan_candidates(_, _)
scan_candidates(a, cands) ==
    IF cands = <<>> THEN a
    ELSE scan_candidates(update_closest(a, Head(cands)), Tail(cands))

(***************************************************************************)
(* Inputs.  The exhaustive part is every pair of wires of MaxTotal steps   *)
(* in all, each step with a distance in 1..MaxDist; the named wires are    *)
(* the inputs of main() (line 232-233), the other documented examples, and *)
(* two pairs of wires whose only crossing lies far from the origin.        *)
(***************************************************************************)
Steps == [direction : Directions, distance : 1..MaxDist]

WiresOf(n) == [1..n -> Steps]

Scenario1Wire0 ==
    <<PathSegment("R", 8), PathSegment("U", 5), PathSegment("L", 5),
      PathSegment("D", 3)>>

Scenario1Wire1 ==
    <<PathSegment("U", 7), PathSegment("R", 6), PathSegment("D", 4),
      PathSegment("L", 4)>>

Scenario2Wire0 ==
    <<PathSegment("R", 75), PathSegment("D", 30), PathSegment("R", 83),
      PathSegment("U", 83), PathSegment("L", 12), PathSegment("D", 49),
      PathSegment("R", 71), PathSegment("U", 7), PathSegment("L", 72)>>

Scenario2Wire1 ==
    <<PathSegment("U", 62), PathSegment("R", 66), PathSegment("U", 55),
      PathSegment("R", 34), PathSegment("D", 71), PathSegment("R", 55),
      PathSegment("D", 58), PathSegment("R", 83)>>

Scenario4Wire0 ==
    <<PathSegment("R", 98), PathSegment("U", 47), PathSegment("R", 26),
      PathSegment("D", 63), PathSegment("R", 33), PathSegment("U", 87),
      PathSegment("L", 62), PathSegment("D", 20), PathSegment("R", 33),
      PathSegment("U", 53), PathSegment("R", 51)>>

Scenario4Wire1 ==
    <<PathSegment("U", 98), PathSegment("R", 91), PathSegment("D", 20),
      PathSegment("R", 16), PathSegment("D", 67), PathSegment("R", 40),
      PathSegment("U", 7), PathSegment("R", 15), PathSegment("U", 6),
      PathSegment("R", 7)>>

FarWire0 ==
    <<PathSegment("R", 100000000), PathSegment("U", 5)>>

FarWire1 ==
    <<PathSegment("U", 5), PathSegment("R", 100000000)>>

LongWire0 ==
    <<PathSegment("R", 5000000), PathSegment("U", 1)>>

LongWire1 ==
    <<PathSegment("U", 1), PathSegment("R", 5000000)>>

NamedInputs ==
    {<<Scenario1Wire0, Scenario1Wire1>>, <<Scenario2Wire0, Scenario2Wire1>>,
     <<Scenario4Wire0, Scenario4Wire1>>, <<FarWire0, FarWire1>>,
     <<LongWire0, LongWire1>>}

\* Tokens handed to toPathSegment.
Chars == {"U", "D", "L", "R", "X", " ", "0", "1", "7", "-", "+"}

Tokens == UNION {[1..n -> Chars] : n \in 0..MaxTokLen}

Coords == (-MaxCoord)..MaxCoord

Points == [x : Coords, y : Coords]

AxisSegments ==
    {s \in [end1 : Points, end2 : Points, steps : 0..MaxCoord, mirrored : BOOLEAN] :
        s.end1.x = s.end2.x \/ s.end1.y = s.end2.y}

\* Axis-aligned segments in any endpoint order, for normalize.
NormPoints == [x : (-1)..(MaxCoord - 1), y : (-1)..(MaxCoord - 1)]

NormSegments ==
    {s \in [end1 : NormPoints, end2 : NormPoints, steps : 0..MaxCoord,
            mirrored : BOOLEAN] :
        s.end1.x = s.end2.x \/ s.end1.y = s.end2.y}

\* Normalized horizontal and vertical segments of positive length.
NormalHorizontals ==
    {s \in AxisSegments : s.end1.y = s.end2.y /\ s.end1.x < s.end2.x}

NormalVerticals ==
    {s \in AxisSegments : s.end1.x = s.end2.x /\ s.end1.y < s.end2.y}

(***************************************************************************)
(* main(): lines 235-239 with closest_intersect unfolded into its loop.    *)
(***************************************************************************)
Idle ==
    /\ c = <<>>
    /\ raw_0 = <<>> /\ raw_1 = <<>>
    /\ segments_0 = <<>> /\ segments_1 = <<>>
    /\ horizontals = <<>> /\ verticals = <<>>
    /\ idx = 0 /\ is = <<>>
    /\ acc = InitialAcc
    /\ found_h = <<>> /\ found_v = <<>>

Init ==
    /\ pc = "line235"
    /\ \/ \E n0 \in 1..(MaxTotal - 1) : \E n1 \in 1..(MaxTotal - n0) :
              path_0 \in WiresOf(n0) /\ path_1 \in WiresOf(n1)
       \/ \E in \in NamedInputs : path_0 = in[1] /\ path_1 = in[2]
    /\ Idle

Line235 ==
    /\ pc = "line235"
    /\ LET r == path_to_segments(path_0)
       IN IF r.ok
          THEN /\ raw_0' = r.segments
               /\ segments_0' = normalize(r.segments)
               /\ pc' = "line236"
          ELSE /\ pc' = "panic"
               /\ UNCHANGED <<raw_0, segments_0>>
    /\ UNCHANGED <<c, path_0, path_1, raw_1, segments_1, horizontals, verticals,
                   idx, is, acc, found_h, found_v>>

Line236 ==
    /\ pc = "line236"
    /\ LET r == path_to_segments(path_1)
       IN IF r.ok
          THEN /\ raw_1' = r.segments
               /\ segments_1' = normalize(r.segments)
               /\ pc' = "closest_intersect"
          ELSE /\ pc' = "panic"
               /\ UNCHANGED <<raw_1, segments_1>>
    /\ UNCHANGED <<c, path_0, path_1, raw_0, segments_0, horizontals, verticals,
                   idx, is, acc, found_h, found_v>>

ClosestEnter ==
    /\ pc = "closest_intersect"
    /\ horizontals' = split_on_direction(segments_1).horizontals
    /\ verticals' = split_on_direction(segments_1).verticals
    /\ acc' = InitialAcc
    /\ idx' = 1
    /\ pc' = "loop"
    /\ UNCHANGED <<c, path_0, path_1, raw_0, raw_1, segments_0, segments_1, is,
                   found_h, found_v>>

ClosestSegment ==
    /\ pc = "loop"
    /\ idx <= Len(segments_0)
    /\ is' = intersects(segments_0[idx], horizontals, verticals)
    /\ acc' = scan_candidates(acc, is')
    /\ idx' = idx + 1
    /\ UNCHANGED <<pc, c, path_0, path_1, raw_0, raw_1, segments_0, segments_1,
                   horizontals, verticals, found_h, found_v>>

ClosestReturn ==
    /\ pc = "loop"
    /\ idx > Len(segments_0)
    /\ pc' = "done"
    /\ UNCHANGED <<c, path_0, path_1, raw_0, raw_1, segments_0, segments_1,
                   horizontals, verticals, idx, is, acc, found_h, found_v>>

Next == Line235 \/ Line236 \/ ClosestEnter \/ ClosestSegment \/ ClosestReturn

Spec == Init /\ [][Next]_vars

(***************************************************************************)
(* The parser followed by the path builder, on one token.                  *)
(***************************************************************************)
InitParse ==
    /\ pc = "token"
    /\ c \in Tokens
    /\ path_0 = <<>> /\ path_1 = <<>>
    /\ raw_0 = <<>> /\ raw_1 = <<>>
    /\ segments_0 = <<>> /\ segments_1 = <<>>
    /\ horizontals = <<>> /\ verticals = <<>>
    /\ idx = 0 /\ is = <<>>
    /\ acc = InitialAcc
    /\ found_h = <<>> /\ found_v = <<>>

ParseToken ==
    /\ pc = "token"
    /\ LET r == toPathSegment(c)
       IN IF r.ok
          THEN /\ path_0' = <<r.value>>
               /\ pc' = "parsed"
          ELSE /\ pc' = "parse_panic"
               /\ UNCHANGED path_0
    /\ UNCHANGED <<c, path_1, raw_0, raw_1, segments_0, segments_1, horizontals,
                   verticals, idx, is, acc, found_h, found_v>>

BuildParsed ==
    /\ pc = "parsed"
    /\ LET r == path_to_segments(path_0)
       IN IF r.ok
          THEN /\ raw_0' = r.segments
               /\ pc' = "built"
          ELSE /\ pc' = "build_panic"
               /\ UNCHANGED raw_0
    /\ UNCHANGED <<c, path_0, path_1, raw_1, segments_0, segments_1, horizontals,
                   verticals, idx, is, acc, found_h, found_v>>

NextParse == ParseToken \/ BuildParsed

SpecParse == InitParse /\ [][NextParse]_vars

(***************************************************************************)
(* normalize applied to arbitrary axis-aligned segments, twice.            *)
(***************************************************************************)
InitNorm ==
    /\ pc = "norm_input"
    /\ raw_0 \in UNION {[1..n -> NormSegments] : n \in 1..NormLen}
    /\ c = <<>>
    /\ path_0 = <<>> /\ path_1 = <<>>
    /\ raw_1 = <<>>
    /\ segments_0 = <<>> /\ segments_1 = <<>>
    /\ horizontals = <<>> /\ verticals = <<>>
    /\ idx = 0 /\ is = <<>>
    /\ acc = InitialAcc
    /\ found_h = <<>> /\ found_v = <<>>

NormalizeOnce ==
    /\ pc = "norm_input"
    /\ segments_0' = normalize(raw_0)
    /\ pc' = "norm_once"
    /\ UNCHANGED <<c, path_0, path_1, raw_0, raw_1, segments_1, horizontals,
                   verticals, idx, is, acc, found_h, found_v>>

NormalizeTwice ==
    /\ pc = "norm_once"
    /\ segments_1' = normalize(segments_0)
    /\ pc' = "norm_twice"
    /\ UNCHANGED <<c, path_0, path_1, raw_0, raw_1, segments_0, horizontals,
                   verticals, idx, is, acc, found_h, found_v>>

NextNorm == NormalizeOnce \/ NormalizeTwice

SpecNorm == InitNorm /\ [][NextNorm]_vars

(***************************************************************************)
(* One horizontal and one vertical segment tested in both roles.           *)
(***************************************************************************)
InitPerp ==
    /\ pc = "perp_input"
    /\ \E h \in NormalHorizontals : horizontals = <<h>>
    /\ \E v \in NormalVerticals : verticals = <<v>>
    /\ c = <<>>
    /\ path_0 = <<>> /\ path_1 = <<>>
    /\ raw_0 = <<>> /\ raw_1 = <<>>
    /\ segments_0 = <<>> /\ segments_1 = <<>>
    /\ idx = 0 /\ is = <<>>
    /\ acc = InitialAcc
    /\ found_h = <<>> /\ found_v = <<>>

TestHorizontal ==
    /\ pc = "perp_input"
    /\ found_h' = intersects_horizontal(horizontals[1], <<>>, verticals)
    /\ pc' = "perp_h"
    /\ UNCHANGED <<c, path_0, path_1, raw_0, raw_1, segments_0, segments_1,
                   horizontals, verticals, idx, is, acc, found_v>>

TestVertical ==
    /\ pc = "perp_h"
    /\ found_v' = intersects_vertical(verticals[1], horizontals, <<>>)
    /\ pc' = "perp_done"
    /\ UNCHANGED <<c, path_0, path_1, raw_0, raw_1, segments_0, segments_1,
                   horizontals, verticals, idx, is, acc, found_h>>

NextPerp == TestHorizontal \/ TestVertical

SpecPerp == InitPerp /\ [][NextPerp]_vars

(***************************************************************************)
(* Reference geometry, computed from the steps of a wire alone.            *)
(***************************************************************************)
Origin == Point(0, 0)

UnitX(dir) == CASE dir = "R" -> 1 [] dir = "L" -> -1 [] OTHER -> 0

UnitY(dir) == CASE dir = "U" -> 1 [] dir = "D" -> -1 [] OTHER -> 0

RECURSIVE LengthOfFirst(_, _)
LengthOfFirst(w, k) ==
    IF k = 0 THEN 0 ELSE LengthOfFirst(w, k - 1) + w[k].distance

RECURSIVE PositionAfter(_, _)
PositionAfter(w, k) ==
    IF k = 0 THEN Origin
    ELSE LET q == PositionAfter(w, k - 1)
         IN Point(q.x + UnitX(w[k].direction) * w[k].distance,
                  q.y + UnitY(w[k].direction) * w[k].distance)

\* The point at offset d of step k, in traversal order.
PointAt(w, k, d) ==
    LET q == PositionAfter(w, k - 1)
    IN Point(q.x + UnitX(w[k].direction) * d, q.y + UnitY(w[k].direction) * d)

InRange(i, a, b) == (a <= i /\ i <= b) \/ (b <= i /\ i <= a)

OnStep(p, w, k) ==
    LET a == PositionAfter(w, k - 1)
        b == PositionAfter(w, k)
    IN \/ p.x = a.x /\ a.x = b.x /\ InRange(p.y, a.y, b.y)
       \/ p.y = a.y /\ a.y = b.y /\ InRange(p.x, a.x, b.x)

OnWire(p, w) == \E k \in 1..Len(w) : OnStep(p, w, k)

Manhattan(p) == (IF p.x < 0 THEN -p.x ELSE p.x) + (IF p.y < 0 THEN -p.y ELSE p.y)

MinOf(S) == CHOOSE m \in S : \A n \in S : m <= n

\* Path length walked along w from its origin to the first visit of p.
WalkLength(p, w) ==
    MinOf({LengthOfFirst(w, k - 1) + Manhattan(Point(p.x - PositionAfter(w, k - 1).x,
                                                     p.y - PositionAfter(w, k - 1).y)) :
             k \in {j \in 1..Len(w) : OnStep(p, w, j)}})

IsHorizontalStep(st) == st.direction \in {"L", "R"}

\* No segment of w0 lies on the same line as a same-orientation segment of w1.
NoSharedLine(w0, w1) ==
    \A i \in 1..Len(w0), j \in 1..Len(w1) :
        LET a == PositionAfter(w0, i)
            b == PositionAfter(w1, j)
        IN /\ ~(IsHorizontalStep(w0[i]) /\ IsHorizontalStep(w1[j]) /\ a.y = b.y)
           /\ ~(~IsHorizontalStep(w0[i]) /\ ~IsHorizontalStep(w1[j]) /\ a.x = b.x)

\* w does not pass through (0,0) again after leaving it.
NoReturnToOrigin(w) == \A k \in 2..Len(w) : ~OnStep(Origin, w, k)

\* Every integer point of the box that holds all wires of the exhaustive
\* part, and every point on the grid of the endpoint coordinates.  Two
\* segments on different lines meet, if at all, on that grid.
XsOf(w) == {PositionAfter(w, k).x : k \in 0..Len(w)}

YsOf(w) == {PositionAfter(w, k).y : k \in 0..Len(w)}

Box == (-(MaxTotal * MaxDist))..(MaxTotal * MaxDist)

Universe(w0, w1) ==
    [x : Box \cup XsOf(w0) \cup XsOf(w1), y : Box \cup YsOf(w0) \cup YsOf(w1)]

SharedPoints(w0, w1) ==
    {p \in Universe(w0, w1) : p # Origin /\ OnWire(p, w0) /\ OnWire(p, w1)}

OnSegment(p, s) ==
    /\ s.end1.x <= p.x /\ p.x <= s.end2.x
    /\ s.end1.y <= p.y /\ p.y <= s.end2.y

RECURSIVE Flatten(_)
Flatten(ss) == IF ss = <<>> THEN <<>> ELSE Head(ss) \o Flatten(Tail(ss))

\* Every candidate closest_intersect scans, in scanning order.
Candidates ==
    Flatten([k \in 1..Len(segments_0) |->
                intersects(segments_0[k], horizontals, verticals)])

Range(f) == {f[k] : k \in DOMAIN f}

Offsets(n) == IF n <= EnumLimit THEN 0..n ELSE {0, 1, n - 1, n}

(***************************************************************************)
(* Claims.                                                                 *)
(***************************************************************************)

\* C1: for wires with no segment of the first on the same line as a
\* same-orientation segment of the second, sharing a point other than (0,0),
\* the returned distance is the least |x|+|y| over the shared points other
\* than (0,0); it is 6 and 159 for the two documented pairs of wires.
C1_DistanceIsLeastOverSharedPoints ==
    /\ (pc = "done" /\ NoSharedLine(path_0, path_1)
           /\ SharedPoints(path_0, path_1) # {})
       => acc.closest_distance
            = MinOf({Manhattan(p) : p \in SharedPoints(path_0, path_1)})
    /\ (pc = "done" /\ path_0 = Scenario1Wire0 /\ path_1 = Scenario1Wire1)
       => acc.closest_distance = 6
    /\ (pc = "done" /\ path_0 = Scenario2Wire0 /\ path_1 = Scenario2Wire1)
       => acc.closest_distance = 159

\* The same statement for wires whose least distance is below the sentinel.
DistanceIsLeastBelowSentinel ==
    /\ (pc = "done" /\ NoSharedLine(path_0, path_1)
           /\ SharedPoints(path_0, path_1) # {}
           /\ MinOf({Manhattan(p) : p \in SharedPoints(path_0, path_1)})
                < SentinelDistance)
       => acc.closest_distance
            = MinOf({Manhattan(p) : p \in SharedPoints(path_0, path_1)})
    /\ (pc = "done" /\ path_0 = Scenario1Wire0 /\ path_1 = Scenario1Wire1)
       => acc.closest_distance = 6
    /\ (pc = "done" /\ path_0 = Scenario2Wire0 /\ path_1 = Scenario2Wire1)
       => acc.closest_distance = 159

CombinedWalk(p) == WalkLength(p, path_0) + WalkLength(p, path_1)

\* C2: for such wires, neither passing through (0,0) again, the cost of
\* closest_by_path is the least combined walked length over the shared
\* points other than (0,0); it is 610 and 410 for the documented wires.
C2_CostIsLeastCombinedWalk ==
    /\ (pc = "done" /\ NoSharedLine(path_0, path_1)
           /\ NoReturnToOrigin(path_0) /\ NoReturnToOrigin(path_1)
           /\ SharedPoints(path_0, path_1) # {})
       => acc.closest_by_path.cost
            = MinOf({CombinedWalk(p) : p \in SharedPoints(path_0, path_1)})
    /\ (pc = "done" /\ path_0 = Scenario2Wire0 /\ path_1 = Scenario2Wire1)
       => acc.closest_by_path.cost = 610
    /\ (pc = "done" /\ path_0 = Scenario4Wire0 /\ path_1 = Scenario4Wire1)
       => acc.closest_by_path.cost = 410

\* The same statement for wires whose least cost is below the sentinel.
CostIsLeastBelowSentinel ==
    /\ (pc = "done" /\ NoSharedLine(path_0, path_1)
           /\ NoReturnToOrigin(path_0) /\ NoReturnToOrigin(path_1)
           /\ SharedPoints(path_0, path_1) # {}
           /\ MinOf({CombinedWalk(p) : p \in SharedPoints(path_0, path_1)})
                < SentinelCost)
       => acc.closest_by_path.cost
            = MinOf({CombinedWalk(p) : p \in SharedPoints(path_0, path_1)})
    /\ (pc = "done" /\ path_0 = Scenario2Wire0 /\ path_1 = Scenario2Wire1)
       => acc.closest_by_path.cost = 610
    /\ (pc = "done" /\ path_0 = Scenario4Wire0 /\ path_1 = Scenario4Wire1)
       => acc.closest_by_path.cost = 410

\* C3: the point (0,0) is never the winning point of either metric.
C3_OriginNeverWins ==
    pc = "done" => /\ acc.closest_intersect.point # Origin
                   /\ acc.closest_by_path.point # Origin

\* The distance metric alone never selects (0,0).
OriginNeverClosestByDistance ==
    pc = "done" => acc.closest_intersect.point # Origin

\* C4: a token whose direction character is not U, D, L or R, or whose
\* suffix is not an integer, fails in toPathSegment; no PathSegment with an
\* unrecognized direction reaches path_to_segments.
C4_ParserRejectsBadTokens ==
    /\ (pc # "token" /\ (c = <<>> \/ Head(c) \notin Directions
                           \/ trim(c) = <<>> \/ ~parse_i32(Tail(trim(c))).ok))
       => pc = "parse_panic"
    /\ pc \in {"parsed", "built", "build_panic"}
       => path_0[1].direction \in Directions

\* A token whose suffix is not an integer does fail in toPathSegment.
BadSuffixFailsInParser ==
    (pc # "token" /\ (c = <<>> \/ trim(c) = <<>> \/ ~parse_i32(Tail(trim(c))).ok))
    => pc = "parse_panic"

\* C5: with no candidate of distance > 0 the distance sentinel and the
\* sentinel point are returned; with no candidate of cost > 0 the cost
\* sentinel and the sentinel point are returned; a candidate of distance
\* (cost) above 0 and below the sentinel keeps the sentinel from being
\* returned; closest_intersect never panics.
C5_SentinelsOnlyWithoutCandidates ==
    /\ pc # "panic"
    /\ pc = "done" =>
        /\ (\A i \in Range(Candidates) : ~(distance(i.point) > 0))
           => /\ acc.closest_distance = SentinelDistance
              /\ acc.closest_intersect = SentinelPoint
        /\ (\A i \in Range(Candidates) : ~(i.cost > 0))
           => acc.closest_by_path = SentinelPoint
        /\ (\E i \in Range(Candidates) :
               distance(i.point) > 0 /\ distance(i.point) < SentinelDistance)
           => /\ acc.closest_distance # SentinelDistance
              /\ acc.closest_intersect # SentinelPoint
        /\ (\E i \in Range(Candidates) : i.cost > 0 /\ i.cost < SentinelCost)
           => /\ acc.closest_by_path.cost # SentinelCost
              /\ acc.closest_by_path # SentinelPoint

C5_Witness ==
    /\ pc = "done"
    /\ Candidates # <<>>
    /\ \A i \in Range(Candidates) : distance(i.point) = 0 /\ i.cost <= 0
    /\ acc = InitialAcc

\* C6: two same-orientation segments on one line yield candidates only if
\* [max(start1,start2), min(end1,end2)] is non-empty, and every candidate of
\* intersects(segment, horizontals, verticals) lies on segment and on a
\* segment of the opposite path.
C6_CandidatesLieOnBothSegments ==
    (pc \in {"loop", "done"} /\ idx > 1) =>
        LET segment == segments_0[idx - 1]
        IN /\ \A other \in Range(horizontals) :
                  (segment.end1.x # segment.end2.x
                     /\ max(segment.end1.x, other.end1.x)
                          > min(segment.end2.x, other.end2.x))
                  => intersects(segment, <<other>>, <<>>) = <<>>
           /\ \A other \in Range(verticals) :
                  (segment.end1.x = segment.end2.x
                     /\ max(segment.end1.y, other.end1.y)
                          > min(segment.end2.y, other.end2.y))
                  => intersects(segment, <<>>, <<other>>) = <<>>
           /\ \A i \in Range(is) :
                  /\ OnSegment(i.point, segment)
                  /\ \E other \in Range(horizontals) \cup Range(verticals) :
                         OnSegment(i.point, other)

\* Perpendicular candidates do lie on both segments.
PerpendicularCandidatesLieOnBoth ==
    (pc \in {"loop", "done"} /\ idx > 1) =>
        LET segment == segments_0[idx - 1]
            perp == IF segment.end1.x = segment.end2.x
                    THEN vertical_vs_horizontals(segment, horizontals)
                    ELSE horizontal_vs_verticals(segment, verticals)
        IN \A i \in Range(perp) :
               /\ OnSegment(i.point, segment)
               /\ \E other \in Range(horizontals) \cup Range(verticals) :
                      OnSegment(i.point, other)

CostMatchesOffsets(w, segs) ==
    \A k \in 1..Len(w) : \A d \in Offsets(w[k].distance) :
        cost_for_segment(PointAt(w, k, d), segs[k]) = segs[k].steps + d

\* C7: for a segment built from a step of positive distance and normalized,
\* cost_for_segment of the point at traversal offset d is steps + d, for
\* all four directions.
C7_CostIsStepsPlusOffset ==
    /\ pc \in {"line236", "closest_intersect", "loop", "done"}
       => CostMatchesOffsets(path_0, segments_0)
    /\ pc \in {"closest_intersect", "loop", "done"}
       => CostMatchesOffsets(path_1, segments_1)

C7_Witness ==
    /\ pc = "closest_intersect"
    /\ \E k \in 1..Len(path_0) :
           /\ segments_0[k].mirrored /\ path_0[k].direction = "L"
           /\ path_0[k].distance >= 2
    /\ \E k \in 1..Len(path_1) :
           /\ segments_1[k].mirrored /\ path_1[k].direction = "D"
           /\ segments_1[k].steps > 0

BuiltFrom(w, segs) ==
    /\ Len(segs) = Len(w)
    /\ segs[1].end1 = Origin
    /\ \A k \in 2..Len(segs) : segs[k].end1 = segs[k - 1].end2
    /\ \A k \in 1..Len(segs) : segs[k].steps = LengthOfFirst(w, k - 1)
    /\ segs[Len(segs)].end2 = PositionAfter(w, Len(w))

\* C8: path_to_segments returns one segment per step, in order, chained
\* from (0,0), each carrying the summed distance of the earlier steps, the
\* last one ending at the vector sum of all steps.
C8_SegmentsFollowSteps ==
    /\ pc \in {"line236", "closest_intersect", "loop", "done"}
       => BuiltFrom(path_0, raw_0)
    /\ pc \in {"closest_intersect", "loop", "done"}
       => BuiltFrom(path_1, raw_1)

C8_Witness ==
    /\ pc = "closest_intersect"
    /\ Len(raw_0) >= 2 /\ Len(raw_1) >= 2
    /\ raw_0[2].steps > 0
    /\ raw_1[Len(raw_1)].end2 # Origin

\* C9: a horizontal h and a vertical v give the same outcome in both
\* roles: no candidate, or one candidate with the same point and cost, and
\* one exactly when v's x is in h's x-range and h's y is in v's y-range.
C9_PerpendicularSymmetric ==
    pc = "perp_done" =>
        LET h == horizontals[1]
            v == verticals[1]
            crossing == /\ h.end1.x <= v.end1.x /\ v.end1.x <= h.end2.x
                        /\ v.end1.y <= h.end1.y /\ h.end1.y <= v.end2.y
        IN /\ found_h = found_v
           /\ Len(found_h) <= 1
           /\ Len(found_h) = 1 <=> crossing
           /\ Len(found_h) = 1 => found_h[1].point = Point(v.end1.x, h.end1.y)

C9_Witness ==
    /\ pc = "perp_done"
    /\ Len(found_h) = 1 /\ Len(found_v) = 1
    /\ found_h[1].point = Point(horizontals[1].end2.x, verticals[1].end1.y)

\* C10: every segment normalize returns has end1.x <= end2.x and
\* end1.y <= end2.y, and normalizing the result again changes nothing.
C10_NormalizeOrderedAndIdempotent ==
    /\ pc \in {"norm_once", "norm_twice"}
       => \A k \in 1..Len(segments_0) :
              /\ segments_0[k].end1.x <= segments_0[k].end2.x
              /\ segments_0[k].end1.y <= segments_0[k].end2.y
    /\ pc = "norm_twice" => segments_1 = segments_0

C10_Witness ==
    /\ pc = "norm_twice"
    /\ segments_0[1].mirrored /\ ~raw_0[1].mirrored
    /\ segments_0[1].end1 = raw_0[1].end2 /\ segments_0[1].end1 # raw_0[1].end1
    /\ segments_1 = segments_0

====
